---- MODULE Spec2Model ----
(***************************************************************************)
(* Model of scripts/index-skills.py (chunk_markdown, main) and             *)
(* scripts/query-skills.py (query, main).                                  *)
(*                                                                         *)
(* Text is modelled as a sequence of one-character strings, so that        *)
(* split, join, strip, len and the header regular expression are computed  *)
(* character by character as Python computes them.                         *)
(***************************************************************************)
EXTENDS Integers, Sequences, FiniteSets, TLC

(***************************************************************************)
(* Bounds of the model.                                                    *)
(***************************************************************************)
\* Longest document, in lines, that chunk_markdown is run on.
MaxLines == 4

(***************************************************************************)
(* Characters and strings.                                                 *)
(***************************************************************************)
NL == "\n"
SP == " "
TAB == "\t"
HASH == "#"

\* The characters of the model's alphabet that str.isspace() / regex \s accept.
WhiteSpace == {SP, TAB, NL}

Rep(c, n) == [k \in 1..n |-> c]

RECURSIVE Flatten(_, _)
\* sep.join(parts)
Flatten(parts, sep) ==
    IF parts = <<>> THEN <<>>
    ELSE IF Len(parts) = 1 THEN Head(parts)
    ELSE Head(parts) \o sep \o Flatten(Tail(parts), sep)

Join(parts, sep) == Flatten(parts, sep)

RECURSIVE SortedSeq(_)
\* The numbers of a finite set in increasing order.
SortedSeq(S) ==
    IF S = {} THEN <<>>
    ELSE LET m == CHOOSE x \in S : \A y \in S : x <= y
         IN <<m>> \o SortedSeq(S \ {m})

\* s.split(sep) for a one-character sep: the pieces between the separators.
Split(s, sep) ==
    LET cuts == <<0>> \o SortedSeq({k \in 1..Len(s) : s[k] = sep}) \o <<Len(s) + 1>>
    IN [p \in 1..(Len(cuts) - 1) |-> SubSeq(s, cuts[p] + 1, cuts[p + 1] - 1)]

RECURSIVE LStrip(_)
LStrip(s) ==
    IF s # <<>> /\ Head(s) \in WhiteSpace THEN LStrip(Tail(s)) ELSE s

RECURSIVE RStrip(_)
RStrip(s) ==
    IF s # <<>> /\ s[Len(s)] \in WhiteSpace
    THEN RStrip(SubSeq(s, 1, Len(s) - 1)) ELSE s

\* str.strip()
Strip(s) == RStrip(LStrip(s))

(***************************************************************************)
(* The header pattern  ^(#{1,4})\s+(.+)$  of chunk_markdown.               *)
(***************************************************************************)
MaxHeaderLevel == 4

\* HeaderSplits with the pattern #{1,5}: one level too many.
HeaderSplitsFiveLevels(line) ==
    UNION {{<<h, w>> : w \in {v \in 1..(Len(line) - h - 1) :
                                /\ \A k \in (h + 1)..(h + v) : line[k] \in WhiteSpace
                                /\ \A k \in (h + v + 1)..Len(line) : line[k] # NL}} :
           h \in {g \in 1..(MaxHeaderLevel + 1) :
                     g <= Len(line) /\ \A k \in 1..g : line[k] = HASH}}

\* The ways the pattern can split a line: h '#' characters (group 1), then w
\* whitespace characters, then a non-empty rest without a newline (group 2).
HeaderSplits(line) ==
    UNION {{<<h, w>> : w \in {v \in 1..(Len(line) - h - 1) :
                                /\ \A k \in (h + 1)..(h + v) : line[k] \in WhiteSpace
                                /\ \A k \in (h + v + 1)..Len(line) : line[k] # NL}} :
           h \in {g \in 1..MaxHeaderLevel :
                     g <= Len(line) /\ \A k \in 1..g : line[k] = HASH}}

\* re.match(...) is not None
IsHeader(line) == HeaderSplits(line) # {}

\* Both quantifiers are greedy: the match found is the one with the most '#'
\* and, for it, the most whitespace.
GreedySplit(line) ==
    CHOOSE hw \in HeaderSplits(line) :
        \A o \in HeaderSplits(line) :
            \/ o[1] < hw[1]
            \/ (o[1] = hw[1] /\ o[2] <= hw[2])

\* len(header_match.group(1))
HeaderLevel(line) == GreedySplit(line)[1]

\* header_match.group(2)
HeaderText(line) ==
    SubSeq(line, GreedySplit(line)[1] + GreedySplit(line)[2] + 1, Len(line))

(***************************************************************************)
(* chunk_markdown.                                                         *)
(***************************************************************************)
MinChunkLen == 50

PathSep == <<SP, ">", SP>>

\* "\n".join(current_chunk).strip()
ChunkText(buf) == Strip(Join(buf, <<NL>>))

\* KeepsChunk with >= for >.
KeepsChunkAtLeast(text) == text # <<>> /\ Len(text) >= MinChunkLen

\* if chunk_text and len(chunk_text) > 50
KeepsChunk(text) == text # <<>> /\ Len(text) > MinChunkLen

\* The flush at a header line and the flush after the loop.
Flush(cs, buf, hdr, fname) ==
    IF buf # <<>> /\ KeepsChunk(ChunkText(buf))
    THEN Append(cs, [text |-> ChunkText(buf), header |-> hdr, source |-> fname])
    ELSE cs

RECURSIVE PopStackDeeperOnly(_, _)
\* PopStack with > for >=: a sibling of the same level stays open.
PopStackDeeperOnly(stack, level) ==
    IF stack # <<>> /\ stack[Len(stack)].level > level
    THEN PopStackDeeperOnly(SubSeq(stack, 1, Len(stack) - 1), level)
    ELSE stack

RECURSIVE PopStack(_, _)
\* while header_stack and header_stack[-1][0] >= level: header_stack.pop()
PopStack(stack, level) ==
    IF stack # <<>> /\ stack[Len(stack)].level >= level
    THEN PopStack(SubSeq(stack, 1, Len(stack) - 1), level)
    ELSE stack

PushHeader(stack, line) ==
    Append(PopStack(stack, HeaderLevel(line)),
           [level |-> HeaderLevel(line), title |-> HeaderText(line)])

\* " > ".join([h[1] for h in header_stack])
StackPath(stack) == Join([k \in 1..Len(stack) |-> stack[k].title], PathSep)

\* ChunkLine that keeps the flushed lines in the buffer of the next chunk.
ChunkLineKeepsBuffer(st, line, fname) ==
    IF IsHeader(line)
    THEN [chunks         |-> Flush(st.chunks, st.current_chunk, st.current_header, fname),
          header_stack   |-> PushHeader(st.header_stack, line),
          current_header |-> StackPath(PushHeader(st.header_stack, line)),
          current_chunk  |-> Append(st.current_chunk, line)]
    ELSE [st EXCEPT !.current_chunk = Append(st.current_chunk, line)]

\* One iteration of the loop over the lines, on the function's locals.
ChunkLine(st, line, fname) ==
    IF IsHeader(line)
    THEN [chunks         |-> Flush(st.chunks, st.current_chunk, st.current_header, fname),
          header_stack   |-> PushHeader(st.header_stack, line),
          current_header |-> StackPath(PushHeader(st.header_stack, line)),
          current_chunk  |-> <<line>>]
    ELSE [st EXCEPT !.current_chunk = Append(st.current_chunk, line)]

\* ChunkStart with an empty header path instead of the file name.
ChunkStartNoName(fname) ==
    [chunks |-> <<>>, header_stack |-> <<>>,
     current_header |-> <<>>, current_chunk |-> <<>>]

\* The locals before the loop.
ChunkStart(fname) ==
    [chunks |-> <<>>, header_stack |-> <<>>,
     current_header |-> fname, current_chunk |-> <<>>]

RECURSIVE ChunkLoop(_, _, _)
ChunkLoop(st, ls, fname) ==
    IF ls = <<>> THEN st
    ELSE ChunkLoop(ChunkLine(st, Head(ls), fname), Tail(ls), fname)

\* The flush after the loop and the value returned.
ChunkFinish(st, fname) ==
    Flush(st.chunks, st.current_chunk, st.current_header, fname)

\* chunk_markdown(content, filename) as a function.
ChunkMarkdown(content, fname) ==
    ChunkFinish(ChunkLoop(ChunkStart(fname), Split(content, NL), fname), fname)

(***************************************************************************)
(* The documents chunk_markdown is run on.                                 *)
(***************************************************************************)
Pad(n) == Rep("x", n)

HdrA == <<HASH, SP, "A">>
HdrB == <<HASH, HASH, SP, "B">>
HdrC2 == <<HASH, HASH, SP, "C">>
HdrC3 == <<HASH, HASH, HASH, SP, "C">>
\* With "# A" and a newline before it, a candidate of exactly MinChunkLen.
BodyAt == Pad(MinChunkLen - Len(HdrA) - 1)
\* The same, one character longer.
BodyOver == Pad(MinChunkLen - Len(HdrA))

\* A header line that is long enough to be a chunk by itself.
HdrLong == HdrA \o Pad(MinChunkLen)

\* Lines for the length and trimming cases.
LengthPool == {<<>>, HdrA, HdrLong, BodyAt, BodyOver}

\* Lines for the nesting cases.
NestingPool == {HdrA, HdrB, HdrC2, HdrC3, BodyOver}

\* Lines for the header pattern's cases.
PatternPool ==
    {<<HASH, HASH, HASH, HASH, SP, "D">>,
     <<HASH, HASH, HASH, HASH, HASH, SP, "E">>,
     <<HASH, TAB, "A">>,
     <<HASH, "A">>,
     <<HASH, SP>>,
     <<HASH, SP, SP>>,
     <<SP, HASH, SP, "A">>,
     BodyOver}

SeqsUpTo(S, n) == UNION {[1..k -> S] : k \in 0..n}

Documents ==
    {Join(ls, <<NL>>) : ls \in SeqsUpTo(LengthPool, MaxLines)
                                 \cup SeqsUpTo(NestingPool, MaxLines)
                                 \cup SeqsUpTo(PatternPool, MaxLines - 2)}

FileNames == {<<"a", ".", "m", "d">>, <<"b", ".", "m", "d">>}

(***************************************************************************)
(* The skills directory, the vector store and the two entry points.        *)
(***************************************************************************)
\* A file without a chunk, a file with one chunk and a file with two.
DocShort == Join(<<HdrA, BodyAt>>, <<NL>>)
DocOne == Join(<<BodyOver, BodyOver>>, <<NL>>)
DocTwo == Join(<<HdrA, BodyOver, HdrB, BodyOver>>, <<NL>>)

FileA == <<"a", ".", "m", "d">>
FileB == <<"b", ".", "m", "d">>

\* The directories: a.md with no, one or two chunks, beside it b.md or not.
FileConfigs ==
    {f \in UNION {[S -> {DocShort, DocOne, DocTwo}] : S \in SUBSET FileNames} :
        /\ FileA \in DOMAIN f
        /\ FileB \in DOMAIN f => f[FileB] = DocOne}

\* Distances the store may report, in hundredths: 0.0, 1.0, 2.0 and 3.0.
DistValues == {0, 100, 200, 300}

\* The command lines of the query tool, without argv[0].
ArgLists == {<<>>, <<<<"i", "o">>>>, <<<<"i", "o">>, <<"e", "r", "r">>>>}

NResults == 5
SmokeResults == 3
SmokeChars == 150
PreviewLines == 15

Min(a, b) == IF a <= b THEN a ELSE b

NoCollection == [exists |-> FALSE, items |-> <<>>]
EmptyCollection == [exists |-> TRUE, items |-> <<>>]
NoResults == [raised |-> FALSE, documents |-> <<>>, metadatas |-> <<>>,
              has_distances |-> FALSE, distances |-> <<>>]
\* The store call raised instead of answering.
Raised == [NoResults EXCEPT !.raised = TRUE]

\* A printed line of fixed text.
Line(text) == [line |-> text]

UsageMsg ==
    <<Line("Usage: python query-skills.py <query>"),
      Line("Example: python query-skills.py 'module not found import error'")>>
NotFoundMsg ==
    <<Line("Error: Collection 'bug-fix-skills' not found."),
      Line("Run 'python scripts/index-skills.py' first to index the documents.")>>
NoResultsMsg == <<Line("No results found.")>>
\* An exception nobody catches ends the process with a traceback and status 1.
TracebackMsg == <<Line("Traceback (most recent call last):")>>

ExitOk == "exit 0"
ExitFail == "exit 1"

\* f"chunk_{i}"
ChunkId(i) == <<"chunk_", i>>

\* Rows with the ids counted from 1.
RowsFromOne(chunks) ==
    [i \in 1..Len(chunks) |->
        [id       |-> ChunkId(i),
         document |-> chunks[i].text,
         metadata |-> [header |-> chunks[i].header, source |-> chunks[i].source]]]

\* The documents, metadatas and ids handed to collection.add, row by row.
Rows(chunks) ==
    [i \in 1..Len(chunks) |->
        [id       |-> ChunkId(i - 1),
         document |-> chunks[i].text,
         metadata |-> [header |-> chunks[i].header, source |-> chunks[i].source]]]

\* collection.add on the store.
Added(c, rows) == [c EXCEPT !.items = @ \o rows]

\* The store's ranking is its own: the model lets it return the stored rows
\* starting anywhere, n of them at most.
Ranked(items, n) ==
    IF items = <<>> THEN {<<>>}
    ELSE {[i \in 1..Min(n, Len(items)) |-> items[((i - 1 + r) % Len(items)) + 1]] :
             r \in 0..(Len(items) - 1)}

\* collection.query: documents, metadatas and distances (nearest first; the
\* distances may be left out) of one query text.
QueryOutcomes(items, n) ==
    UNION {{[raised        |-> FALSE,
             documents     |-> [i \in 1..Len(rk) |-> rk[i].document],
             metadatas     |-> [i \in 1..Len(rk) |-> rk[i].metadata],
             has_distances |-> TRUE,
             distances     |-> ds] :
               ds \in {d \in [1..Len(rk) -> DistValues] :
                          \A i \in 1..(Len(d) - 1) : d[i] <= d[i + 1]}}
           \cup
           {[raised        |-> FALSE,
             documents     |-> [i \in 1..Len(rk) |-> rk[i].document],
             metadatas     |-> [i \in 1..Len(rk) |-> rk[i].metadata],
             has_distances |-> FALSE,
             distances     |-> <<>>]} :
           rk \in Ranked(items, n)}

\* Relevance without the halving.
RelevanceNotHalved(distance) == IF distance # 0 THEN 100 - distance ELSE 100

\* relevance = 1 - (distance / 2) if distance else 1.0, as a percentage.
Relevance(distance) == IF distance # 0 THEN 100 - distance \div 2 ELSE 100

\* The first 15 lines of a document and the count of the lines left out.
Preview(doc) ==
    LET ls == Split(doc, NL)
    IN [text |-> Join(SubSeq(ls, 1, Min(PreviewLines, Len(ls))), <<NL>>),
        more |-> IF Len(ls) > PreviewLines THEN Len(ls) - PreviewLines ELSE 0]

\* What query() prints for the results of the store.
Printed(text, res) ==
    LET ds == IF res.has_distances THEN res.distances
              ELSE [i \in 1..Len(res.documents) |-> 0]
    IN <<[line |-> "Query:", query |-> text]>> \o
       [i \in 1..Len(res.documents) |->
           [line      |-> "result",
            rank      |-> i,
            source    |-> res.metadatas[i].source,
            header    |-> res.metadatas[i].header,
            relevance |-> Relevance(ds[i]),
            preview   |-> Preview(res.documents[i])]]

\* What the indexer prints for its test query.
SmokePrinted(rk) ==
    <<Line("--- Test Query: 'import error module not found' ---")>> \o
    [i \in 1..Len(rk) |->
        [line   |-> "result",
         rank   |-> i,
         source |-> rk[i].metadata.source,
         header |-> rk[i].metadata.header,
         text   |-> SubSeq(rk[i].document, 1, Min(SmokeChars, Len(rk[i].document)))]]

VARIABLES
    content,        \* chunk_markdown's argument
    filename,       \* chunk_markdown's argument
    lines,          \* content.split("\n")
    pc,             \* "loop" in the for loop, "done" after return
    idx,            \* 1-based position of the loop in lines
    locals,         \* chunks, current_chunk, current_header, header_stack
    files,          \* the *.md files of SKILLS_DIR: name -> content
    coll,           \* the collection "bug-fix-skills" of the store
    ipc,            \* the indexer: "idle", "create", "scan", "smoke"
    itodo,          \* the files the glob has still to yield
    all_chunks,     \* the indexer's all_chunks
    icalls,         \* the store calls of this indexing run
    iout,           \* what this indexing run printed
    irc,            \* the indexer's exit status, "running" while it runs
    qpc,            \* the query tool: "idle", "get", "query"
    qargs,          \* sys.argv[1:]
    qhandle,        \* its collection handle: "none", "live", "dropped"
    results,        \* the results of its similarity query
    qcalls,         \* the store calls of this query run
    qout,           \* what this query run printed
    qexit,          \* its exit status, "running" while it runs
    seeded,         \* a run over the present files has filled the collection
    raced           \* what queries have seen since: "absent", "empty"

chunkVars == <<content, filename, lines, pc, idx, locals>>
dirVars == <<files, coll>>
indexVars == <<ipc, itodo, all_chunks, icalls, iout, irc>>
queryVars == <<qpc, qargs, qhandle, results, qcalls, qout, qexit>>
histVars == <<seeded, raced>>
toolVars == <<dirVars, indexVars, queryVars, histVars>>

vars == <<chunkVars, toolVars>>

\* Neither tool has run; the store holds no collection.
ToolsIdle ==
    /\ coll = NoCollection
    /\ ipc = "idle" /\ itodo = {} /\ all_chunks = <<>>
    /\ icalls = <<>> /\ iout = <<>> /\ irc = "none"
    /\ qpc = "idle" /\ qargs = <<>> /\ qhandle = "none" /\ results = NoResults
    /\ qcalls = <<>> /\ qout = <<>> /\ qexit = "none"
    /\ seeded = FALSE /\ raced = {}

\* chunk_markdown is not running.
ChunkerIdle ==
    /\ content = <<>> /\ filename = <<>> /\ lines = <<>>
    /\ pc = "idle" /\ idx = 0 /\ locals = ChunkStart(<<>>)

(***************************************************************************)
(* chunk_markdown on a document, line by line.                             *)
(***************************************************************************)
Init ==
    /\ content \in Documents
    /\ filename \in FileNames
    /\ lines = Split(content, NL)
    /\ pc = "loop"
    /\ idx = 1
    /\ locals = ChunkStart(filename)
    /\ files = <<>>
    /\ ToolsIdle

\* A loop iteration on a header line.
LoopHeader ==
    /\ pc = "loop"
    /\ idx <= Len(lines)
    /\ IsHeader(lines[idx])
    /\ locals' = ChunkLine(locals, lines[idx], filename)
    /\ idx' = idx + 1
    /\ UNCHANGED <<content, filename, lines, pc, toolVars>>

\* A loop iteration on any other line.
LoopAppend ==
    /\ pc = "loop"
    /\ idx <= Len(lines)
    /\ ~IsHeader(lines[idx])
    /\ locals' = ChunkLine(locals, lines[idx], filename)
    /\ idx' = idx + 1
    /\ UNCHANGED <<content, filename, lines, pc, toolVars>>

\* The end of the loop: the last flush, and return chunks.
LoopEnd ==
    /\ pc = "loop"
    /\ idx > Len(lines)
    /\ locals' = [locals EXCEPT !.chunks = ChunkFinish(locals, filename)]
    /\ pc' = "done"
    /\ UNCHANGED <<content, filename, lines, idx, toolVars>>

Next == LoopHeader \/ LoopAppend \/ LoopEnd

Spec == Init /\ [][Next]_vars

(***************************************************************************)
(* index-skills.py main.                                                   *)
(***************************************************************************)
\* IndexDelete that leaves the collection in the store.
IndexDeleteKeeps ==
    /\ ipc = "idle"
    /\ icalls' = <<"delete_collection">>
    /\ iout' = <<>>
    /\ all_chunks' = <<>>
    /\ itodo' = {}
    /\ irc' = "running"
    /\ ipc' = "create"
    /\ UNCHANGED <<chunkVars, dirVars, queryVars, histVars>>

\* Open the store and delete the collection; its absence is swallowed.  A
\* handle another process holds on the deleted collection names nothing now.
IndexDelete ==
    /\ ipc = "idle"
    /\ coll' = NoCollection
    /\ qhandle' = IF coll.exists /\ qhandle = "live" THEN "dropped" ELSE qhandle
    /\ icalls' = <<"delete_collection">>
    /\ iout' = IF coll.exists THEN <<Line("Deleted existing collection")>> ELSE <<>>
    /\ all_chunks' = <<>>
    /\ itodo' = {}
    /\ irc' = "running"
    /\ ipc' = "create"
    /\ UNCHANGED <<chunkVars, files, qpc, qargs, results, qcalls, qout, qexit, histVars>>

\* create_collection, which raises when the name is taken; then the glob.
IndexCreate ==
    /\ ipc = "create"
    /\ icalls' = Append(icalls, "create_collection")
    /\ IF coll.exists
       THEN /\ iout' = iout \o TracebackMsg
            /\ irc' = ExitFail
            /\ ipc' = "idle"
            /\ UNCHANGED <<coll, itodo>>
       ELSE /\ coll' = EmptyCollection
            /\ itodo' = DOMAIN files
            /\ ipc' = "scan"
            /\ UNCHANGED <<iout, irc>>
    /\ UNCHANGED <<chunkVars, files, all_chunks, queryVars, histVars>>

\* One file of the glob, in whatever order it yields them.
IndexScan ==
    /\ ipc = "scan"
    /\ \E f \in itodo :
          LET chunks == ChunkMarkdown(files[f], f)
          IN /\ all_chunks' = all_chunks \o chunks
             /\ iout' = iout \o <<[line |-> "Processing:", file |-> f],
                                     [line |-> "->", chunks |-> Len(chunks)]>>
             /\ itodo' = itodo \ {f}
    /\ UNCHANGED <<chunkVars, dirVars, ipc, icalls, irc, queryVars, histVars>>

\* IndexNoChunks without the return: the add of no rows raises.
IndexNoChunksGoesOn ==
    /\ ipc = "scan"
    /\ itodo = {}
    /\ all_chunks = <<>>
    /\ iout' = Append(iout, Line("No chunks found!")) \o TracebackMsg
    /\ icalls' = Append(icalls, "add")
    /\ irc' = ExitFail
    /\ ipc' = "idle"
    /\ UNCHANGED <<chunkVars, dirVars, itodo, all_chunks, queryVars, histVars>>

\* if not all_chunks: print and return.
IndexNoChunks ==
    /\ ipc = "scan"
    /\ itodo = {}
    /\ all_chunks = <<>>
    /\ iout' = Append(iout, Line("No chunks found!"))
    /\ irc' = ExitOk
    /\ ipc' = "idle"
    /\ UNCHANGED <<chunkVars, dirVars, itodo, all_chunks, icalls, queryVars, histVars>>

\* The one add call, with the ids chunk_0, chunk_1, ...
IndexAdd ==
    /\ ipc = "scan"
    /\ itodo = {}
    /\ all_chunks # <<>>
    /\ coll' = Added(coll, Rows(all_chunks))
    /\ icalls' = Append(icalls, "add")
    /\ iout' = Append(iout, [line |-> "Indexed", chunks |-> Len(all_chunks)])
    /\ ipc' = "smoke"
    /\ UNCHANGED <<chunkVars, files, itodo, all_chunks, irc, queryVars, histVars>>

\* The test query on the collection just filled, and return.
IndexSmoke ==
    /\ ipc = "smoke"
    /\ \E rk \in Ranked(coll.items, SmokeResults) :
          iout' = iout \o SmokePrinted(rk)
    /\ icalls' = Append(icalls, "query")
    /\ irc' = ExitOk
    /\ ipc' = "idle"
    /\ seeded' = TRUE
    /\ UNCHANGED <<chunkVars, dirVars, itodo, all_chunks, queryVars, raced>>

\* Between runs the skill documents are edited.
EditFiles ==
    /\ ipc = "idle"
    /\ files' \in FileConfigs \ {files}
    /\ seeded' = FALSE
    /\ raced' = {}
    /\ UNCHANGED <<chunkVars, coll, indexVars, queryVars>>

(***************************************************************************)
(* query-skills.py main and query.                                         *)
(***************************************************************************)
\* main: the usage message and exit(1) without arguments, else query().
QueryMain ==
    /\ qpc = "idle"
    /\ \E args \in ArgLists :
          /\ qargs' = args
          /\ IF Len(args) + 1 < 2
             THEN qout' = UsageMsg /\ qexit' = ExitFail /\ qpc' = "idle"
             ELSE qout' = <<>> /\ qexit' = "running" /\ qpc' = "get"
    /\ qhandle' = "none"
    /\ results' = NoResults
    /\ qcalls' = <<>>
    /\ UNCHANGED <<chunkVars, dirVars, indexVars, histVars>>

\* QueryGet that returns, instead of exiting with 1, on an absent collection.
QueryGetReturns ==
    /\ qpc = "get"
    /\ qcalls' = Append(qcalls, "get_collection")
    /\ IF coll.exists
       THEN /\ qhandle' = "live"
            /\ qpc' = "query"
            /\ UNCHANGED <<qout, qexit, raced>>
       ELSE /\ qout' = NotFoundMsg
            /\ qexit' = ExitOk
            /\ qpc' = "idle"
            /\ raced' = IF seeded THEN raced \cup {"absent"} ELSE raced
            /\ UNCHANGED qhandle
    /\ UNCHANGED <<chunkVars, dirVars, indexVars, qargs, results, seeded>>

\* get_collection: the guidance and exit(1) when the collection is absent.
QueryGet ==
    /\ qpc = "get"
    /\ qcalls' = Append(qcalls, "get_collection")
    /\ IF coll.exists
       THEN /\ qhandle' = "live"
            /\ qpc' = "query"
            /\ UNCHANGED <<qout, qexit, raced>>
       ELSE /\ qout' = NotFoundMsg
            /\ qexit' = ExitFail
            /\ qpc' = "idle"
            /\ raced' = IF seeded THEN raced \cup {"absent"} ELSE raced
            /\ UNCHANGED qhandle
    /\ UNCHANGED <<chunkVars, dirVars, indexVars, qargs, results, seeded>>

\* What the store may answer: on a dropped handle it raises, or answers from
\* the collection that now has the name.
StoreAnswers ==
    IF qhandle = "live" THEN QueryOutcomes(coll.items, NResults)
    ELSE {Raised} \cup
         (IF coll.exists THEN QueryOutcomes(coll.items, NResults) ELSE {})

\* collection.query and the printing of its results.
QueryRun ==
    /\ qpc = "query"
    /\ qcalls' = Append(qcalls, "query")
    /\ \E res \in StoreAnswers :
          IF res.raised
          THEN /\ qout' = TracebackMsg
               /\ qexit' = ExitFail
               /\ UNCHANGED <<results, raced>>
          ELSE /\ results' = res
               /\ qexit' = ExitOk
               /\ IF res.documents = <<>>
                  THEN /\ qout' = NoResultsMsg
                       /\ raced' = IF seeded THEN raced \cup {"empty"} ELSE raced
                  ELSE /\ qout' = Printed(Join(qargs, <<SP>>), res)
                       /\ UNCHANGED raced
    /\ qhandle' = "none"
    /\ qpc' = "idle"
    /\ UNCHANGED <<chunkVars, dirVars, indexVars, qargs, seeded>>

IndexNext ==
    IndexDelete \/ IndexCreate \/ IndexScan \/ IndexNoChunks \/ IndexAdd \/ IndexSmoke

QueryNext == QueryMain \/ QueryGet \/ QueryRun

ToolsInit ==
    /\ ChunkerIdle
    /\ files \in FileConfigs
    /\ ToolsIdle

\* The two tools as independent processes on one store.
ToolsNext == IndexNext \/ QueryNext \/ EditFiles

SpecTools == ToolsInit /\ [][ToolsNext]_vars

\* The tools run one at a time, as the design assumes.
SerialNext ==
    \/ qpc = "idle" /\ IndexNext
    \/ ipc = "idle" /\ QueryNext
    \/ EditFiles

SpecSerial == ToolsInit /\ [][SerialNext]_vars

(***************************************************************************)
(* What the document says, read off the lines alone: the candidate         *)
(* segments (one starts at line 1 and one at every header line) and the    *)
(* chain of enclosing headers of a header line.                            *)
(***************************************************************************)
Last(s) == s[Len(s)]

HeaderLines == {k \in 1..Len(lines) : IsHeader(lines[k])}

\* The candidate segments in document order: first and last line, trimmed
\* text, and whether the buffer has been flushed (a later header line has been
\* read, or the function has returned).
Candidates ==
    LET starts == SortedSeq({1} \cup HeaderLines)
        n == Len(starts)
    IN [p \in 1..n |->
          LET e == IF p < n THEN starts[p + 1] - 1 ELSE Len(lines)
          IN [start  |-> starts[p],
              end    |-> e,
              text   |-> Strip(Join(SubSeq(lines, starts[p], e), <<NL>>)),
              closed |-> pc = "done" \/ (p < n /\ starts[p + 1] < idx)]]

\* Of these, the flushed ones that are longer than 50 characters.
KeptOf(cands) == SelectSeq(cands, LAMBDA c : c.closed /\ Len(c.text) > 50)

\* The candidate the loop is filling, once a line has been read.
OpenOf(cands) ==
    cands[CHOOSE p \in 1..Len(cands) :
             cands[p].start < idx /\ idx <= cands[p].end + 1]

LeadingHashes(line) ==
    Cardinality({n \in 1..Len(line) : \A k \in 1..n : line[k] = HASH})

\* The nearest earlier header line of a smaller level, 0 when there is none.
Parent(k) ==
    LET up == {j \in HeaderLines :
                  j < k /\ LeadingHashes(lines[j]) < LeadingHashes(lines[k])}
    IN IF up = {} THEN 0 ELSE CHOOSE j \in up : \A o \in up : o <= j

RECURSIVE Chain(_)
\* The titles of the headers enclosing header line k, outermost first.
Chain(k) ==
    IF k = 0 THEN <<>> ELSE Append(Chain(Parent(k)), HeaderText(lines[k]))

ChainPath(k) == Join(Chain(k), PathSep)

(***************************************************************************)
(* C1.  Every chunk's text is trimmed, non-empty and longer than 50        *)
(* characters; a candidate whose trimmed text has exactly 50 characters    *)
(* yields no chunk and one of 51 characters yields its chunk, at a header  *)
(* line and at the end of the input alike.                                 *)
(***************************************************************************)
C1_ChunksLongAndTrimmed ==
    LET cands == Candidates
        texts == {locals.chunks[j].text : j \in 1..Len(locals.chunks)}
    IN /\ \A t \in texts :
             /\ t # <<>>
             /\ Len(t) > 50
             /\ t[1] \notin WhiteSpace
             /\ t[Len(t)] \notin WhiteSpace
       /\ \A p \in 1..Len(cands) :
             cands[p].closed =>
                /\ Len(cands[p].text) = 50 => cands[p].text \notin texts
                /\ Len(cands[p].text) = 51 => cands[p].text \in texts

\* A candidate of 50 characters was dropped at a header line and one of 51
\* characters was kept at the end of the input.
C1_Witness ==
    LET cands == Candidates
    IN /\ pc = "done"
       /\ Len(cands) = 2
       /\ Len(cands[1].text) = 50
       /\ Len(cands[2].text) = 51
       /\ Len(locals.chunks) = 1
       /\ locals.chunks[1].text = cands[2].text

(***************************************************************************)
(* C2.  The header path of a chunk is the titles of the chain of headers   *)
(* enclosing the header line that opened its buffer (each header's parent  *)
(* is the nearest earlier header of a smaller level), joined with " > ",   *)
(* and it stays that of the opening line while lines are appended.         *)
(***************************************************************************)
C2_HeaderPathIsChain ==
    LET cands == Candidates
        kept == KeptOf(cands)
    IN /\ Len(locals.chunks) = Len(kept)
       /\ \A j \in 1..Len(kept) :
             kept[j].start \in HeaderLines =>
                locals.chunks[j].header = ChainPath(kept[j].start)
       /\ (pc = "loop" /\ idx > 1 /\ OpenOf(cands).start \in HeaderLines) =>
             locals.current_header = ChainPath(OpenOf(cands).start)

\* "# A", "## B", "## C" and a body: the chunk of C has the path "A > C".
C2_Witness ==
    /\ pc = "done"
    /\ lines = <<HdrA, HdrB, HdrC2, BodyOver>>
    /\ Len(locals.chunks) = 1
    /\ locals.chunks[1].header = <<"A", SP, ">", SP, "C">>

(***************************************************************************)
(* C3.  As claimed: the lines of the chunks' texts, in order, are the      *)
(* lines of the document without the lines of the dropped candidates.      *)
(***************************************************************************)
RECURSIVE LinesOf(_)
LinesOf(cands) ==
    IF cands = <<>> THEN <<>>
    ELSE SubSeq(lines, Head(cands).start, Head(cands).end) \o LinesOf(Tail(cands))

C3_TextsReconstructLines ==
    pc = "done" =>
        (IF locals.chunks = <<>> THEN <<>>
         ELSE Split(Join([j \in 1..Len(locals.chunks) |-> locals.chunks[j].text],
                         <<NL>>), NL))
          = LinesOf(KeptOf(Candidates))

(***************************************************************************)
(* C3, amended.  The chunks are, in document order, the trimmed texts of   *)
(* the kept candidate segments, which are disjoint runs of lines of the    *)
(* document; the buffer being filled is the run since the last start.      *)
(***************************************************************************)
C3_ChunksAreTrimmedSegments ==
    LET cands == Candidates
        kept == KeptOf(cands)
    IN /\ Len(locals.chunks) = Len(kept)
       /\ \A j \in 1..Len(kept) : locals.chunks[j].text = kept[j].text
       /\ (pc = "loop" /\ idx > 1) =>
             locals.current_chunk = SubSeq(lines, OpenOf(cands).start, idx - 1)

\* Two chunks were produced and the candidate between them was dropped.
C3_Witness ==
    LET cands == Candidates
    IN /\ pc = "done"
       /\ Len(locals.chunks) = 2
       /\ Len(cands) = 3
       /\ Len(cands[2].text) <= 50

(***************************************************************************)
(* C4.  As claimed: a line is a header exactly when it is 1 to 4 '#', one  *)
(* or more spaces and a non-empty title; a header line opens a new buffer  *)
(* at the level of its '#' count, any other line is appended.              *)
(***************************************************************************)
\* The number of spaces that follow the first n characters.
SpaceRun(line, n) ==
    Cardinality({m \in 1..(Len(line) - n) :
                    \A k \in (n + 1)..(n + m) : line[k] = SP})

DescribedWithSpaces(line) ==
    /\ LeadingHashes(line) \in 1..4
    /\ SpaceRun(line, LeadingHashes(line)) >= 1
    /\ Len(line) >= LeadingHashes(line) + 2

TreatedAsHeader(line) ==
    /\ locals'.current_chunk = <<line>>
    /\ locals'.header_stack # <<>>
    /\ Last(locals'.header_stack).level = LeadingHashes(line)

TreatedAsBody(line) ==
    /\ locals'.current_chunk = Append(locals.current_chunk, line)
    /\ locals'.header_stack = locals.header_stack
    /\ locals'.current_header = locals.current_header

C4_HeaderNeedsSpaces ==
    [][(pc = "loop" /\ idx <= Len(lines)) =>
          IF DescribedWithSpaces(lines[idx])
          THEN TreatedAsHeader(lines[idx]) ELSE TreatedAsBody(lines[idx])]_vars

(***************************************************************************)
(* C4, amended.  A line is a header exactly when it is 1 to 4 '#', then a  *)
(* whitespace character (a space or a tab), then at least one more         *)
(* character; its level is its count of leading '#'.  A line of 5 or more  *)
(* '#' is appended to the buffer.                                          *)
(***************************************************************************)
DescribedWithWhitespace(line) ==
    /\ LeadingHashes(line) \in 1..4
    /\ Len(line) >= LeadingHashes(line) + 2
    /\ line[LeadingHashes(line) + 1] \in {SP, TAB}

C4_HeaderPattern ==
    [][(pc = "loop" /\ idx <= Len(lines)) =>
          IF DescribedWithWhitespace(lines[idx])
          THEN TreatedAsHeader(lines[idx]) ELSE TreatedAsBody(lines[idx])]_vars

\* A line of five '#' was appended to the buffer a level-4 header opened.
C4_Witness ==
    /\ Len(locals.current_chunk) >= 2
    /\ LeadingHashes(locals.current_chunk[1]) = 4
    /\ LeadingHashes(Last(locals.current_chunk)) = 5
    /\ Last(locals.header_stack).level = 4

(***************************************************************************)
(* C5.  A document without a header line gives one chunk, the trimmed      *)
(* document under the file name, when that is longer than 50 characters,   *)
(* and none otherwise.  The chunk of the lines before the first header has *)
(* the file name as its path; every chunk's source is the file name.       *)
(***************************************************************************)
C5_FilenameDefaults ==
    LET kept == KeptOf(Candidates)
    IN /\ \A j \in 1..Len(locals.chunks) : locals.chunks[j].source = filename
       /\ (kept # <<>> /\ kept[1].start \notin HeaderLines /\ locals.chunks # <<>>)
             => locals.chunks[1].header = filename
       /\ (pc = "done" /\ HeaderLines = {}) =>
             IF Len(Strip(content)) > 50
             THEN locals.chunks = <<[text |-> Strip(content), header |-> filename,
                                     source |-> filename]>>
             ELSE locals.chunks = <<>>

\* A document of two lines without a header came out as one chunk.
C5_Witness ==
    /\ pc = "done"
    /\ HeaderLines = {}
    /\ Len(lines) >= 2
    /\ Len(locals.chunks) = 1

(***************************************************************************)
(* C6.  After an indexing run that produced n >= 1 chunks the collection   *)
(* holds exactly the n chunks of that run, in the order they were          *)
(* accumulated over the files, under the ids chunk_0 .. chunk_{n-1}: the   *)
(* run deleted the collection, created it and added the chunks in one add. *)
(***************************************************************************)
Range(s) == {s[i] : i \in 1..Len(s)}

\* The orders in which the glob may yield the files.
FileOrders ==
    {o \in [1..Cardinality(DOMAIN files) -> DOMAIN files] :
        \A i, j \in DOMAIN o : i # j => o[i] # o[j]}

RECURSIVE ChunksInOrder(_)
ChunksInOrder(o) ==
    IF o = <<>> THEN <<>>
    ELSE ChunkMarkdown(files[Head(o)], Head(o)) \o ChunksInOrder(Tail(o))

C6_CollectionIsThisRun ==
    "add" \in Range(icalls) =>
        /\ coll.exists
        /\ Len(all_chunks) >= 1
        /\ Len(coll.items) = Len(all_chunks)
        /\ \A i \in 1..Len(coll.items) :
              /\ coll.items[i].id = <<"chunk_", i - 1>>
              /\ coll.items[i].document = all_chunks[i].text
              /\ coll.items[i].metadata.header = all_chunks[i].header
              /\ coll.items[i].metadata.source = all_chunks[i].source
        /\ \A i, j \in 1..Len(coll.items) :
              i # j => coll.items[i].id # coll.items[j].id
        /\ SubSeq(icalls, 1, 3) = <<"delete_collection", "create_collection", "add">>
        /\ Cardinality({i \in 1..Len(icalls) : icalls[i] = "add"}) = 1
        /\ (ipc = "smoke" \/ seeded) =>
              \E o \in FileOrders : all_chunks = ChunksInOrder(o)

\* A run over two files replaced an existing collection by its three chunks,
\* those of b.md first.
C6_Witness ==
    /\ ipc = "idle"
    /\ irc = ExitOk
    /\ Line("Deleted existing collection") \in Range(iout)
    /\ Len(coll.items) = 3
    /\ coll.items[1].metadata.source = FileB
    /\ coll.items[3].metadata.source = FileA
    /\ coll.items[3].id = ChunkId(2)

(***************************************************************************)
(* C7.  A run that produced no chunk has printed "No chunks found!" last,  *)
(* has called the store only to delete and to create the collection, has   *)
(* returned normally, and has left the collection in the store, empty.     *)
(***************************************************************************)
C7_NoChunksRun ==
    (ipc = "idle" /\ irc # "none" /\ all_chunks = <<>>) =>
        /\ irc = ExitOk
        /\ iout # <<>>
        /\ iout[Len(iout)] = Line("No chunks found!")
        /\ icalls = <<"delete_collection", "create_collection">>
        /\ coll = EmptyCollection

\* Such a run, which found a collection to delete.
C7_Witness ==
    /\ ipc = "idle"
    /\ irc = ExitOk
    /\ all_chunks = <<>>
    /\ Line("Deleted existing collection") \in Range(iout)
    /\ Line("No chunks found!") \in Range(iout)
    /\ coll = EmptyCollection

(***************************************************************************)
(* C8.  The query tool ends with status 1 and its guidance, without a      *)
(* similarity query and without printing a chunk, when it has no argument  *)
(* or the collection is absent; in every other case it ends with status 0, *)
(* printing "No results found." and no chunk when the store returns none.  *)
(***************************************************************************)
NoChunkPrinted(out) == \A i \in 1..Len(out) : out[i].line # "result"

\* The step is one of the query tool.
QueryStep == <<qpc, qargs, results, qcalls, qout, qexit>>' #
             <<qpc, qargs, results, qcalls, qout, qexit>>

C8_QueryExitStatus ==
    /\ [](qexit = ExitFail => NoChunkPrinted(qout) /\ "query" \notin Range(qcalls))
    /\ [][QueryStep =>
            /\ (qpc = "idle" /\ qargs' = <<>>) =>
                  /\ qpc' = "idle"
                  /\ qexit' = ExitFail
                  /\ qout' = UsageMsg
                  /\ qcalls' = <<>>
            /\ (qpc = "idle" /\ qargs' # <<>>) => (qpc' = "get" /\ qexit' = "running")
            /\ (qpc = "get" /\ ~coll.exists) =>
                  /\ qpc' = "idle"
                  /\ qexit' = ExitFail
                  /\ qout' = NotFoundMsg
                  /\ qcalls' = <<"get_collection">>
            /\ (qpc = "get" /\ coll.exists) => (qpc' = "query" /\ qexit' = "running")
            /\ qpc = "query" =>
                  /\ qpc' = "idle"
                  /\ qexit' = ExitOk
                  /\ coll.items = <<>> => qout' = NoResultsMsg
                  /\ coll.items # <<>> => ~NoChunkPrinted(qout')]_vars

\* A query against a collection without documents ended with status 0.
C8_Witness ==
    /\ qpc = "idle"
    /\ qexit = ExitOk
    /\ qout = NoResultsMsg
    /\ coll = EmptyCollection
    /\ ipc = "idle"

(***************************************************************************)
(* C9.  The relevance printed for a result is 1 - distance/2, and 100%     *)
(* when the distance is 0 or the store reports no distances: 100% at 0.0,  *)
(* 50% at 1.0, 0% at 2.0, within 0%..100% for a distance within 0..2, and  *)
(* never larger for a larger distance.  Distances are in hundredths.       *)
(***************************************************************************)
\* The distance behind the i-th printed result, -1 when none was reported.
DistanceOf(i) == IF results.has_distances THEN results.distances[i] ELSE 0 - 1

C9_Relevance ==
    (qout # <<>> /\ qout[1].line = "Query:") =>
        /\ Len(qout) = Len(results.documents) + 1
        /\ \A i \in 1..Len(results.documents) :
              LET d == DistanceOf(i)
                  r == qout[i + 1].relevance
              IN /\ d = 0 - 1 => r = 100
                 /\ d = 0 => r = 100
                 /\ d = 100 => r = 50
                 /\ d = 200 => r = 0
                 /\ (d >= 0 /\ d <= 200) => (2 * r = 200 - d /\ r >= 0 /\ r <= 100)
                 /\ \A j \in 1..Len(results.documents) :
                       (d >= 0 /\ d <= DistanceOf(j) /\ DistanceOf(j) <= 200)
                          => r >= qout[j + 1].relevance

\* Three results at the distances 0.0, 1.0 and 2.0 were printed with 100%,
\* 50% and 0%.
C9_Witness ==
    /\ results.has_distances
    /\ results.distances = <<0, 100, 200>>
    /\ Len(qout) = 4
    /\ qout[2].relevance = 100
    /\ qout[3].relevance = 50
    /\ qout[4].relevance = 0

(***************************************************************************)
(* C10.  An indexing run leaves the store without the collection between   *)
(* its delete and its create, and with an empty one from then to its add;  *)
(* a query that looks the collection up in the first window ends with      *)
(* status 1, one that queries it in the second prints "No results found.", *)
(* although a run over the same files had filled the collection before.    *)
(***************************************************************************)
C10_RebuildIsNotAtomic ==
    /\ []((ipc = "create" => ~coll.exists)
          /\ (ipc = "scan" => coll = EmptyCollection)
          /\ ((seeded /\ ipc = "idle") => (coll.exists /\ coll.items # <<>>))
          /\ (raced # {} => seeded))
    /\ [][QueryStep =>
            /\ (qpc = "get" /\ ipc = "create") =>
                  (qexit' = ExitFail /\ qout' = NotFoundMsg)
            /\ (qpc = "query" /\ qhandle = "live" /\ ipc = "scan") =>
                  (qexit' = ExitOk /\ qout' = NoResultsMsg)]_vars

\* Between two runs over the same files, both of which filled the
\* collection, queries found it absent and found it empty.
C10_Witness ==
    /\ seeded
    /\ raced = {"absent", "empty"}
    /\ ipc = "idle"
    /\ irc = ExitOk
    /\ coll.items # <<>>

====
